---- MODULE Spec2Model ----
(***************************************************************************)
(* A model of the Bluesky scraper: the retry wrapper safe_request and the  *)
(* orchestrator main of pull.py, with the dedup state file, the feeds and  *)
(* the spreadsheet sink as its environment; and clean_text, categorize_text *)
(* and the loop of get_posts_for_user, each called on its own.             *)
(***************************************************************************)
EXTENDS Integers, Sequences, FiniteSets, TLC

\* ------------------------------------------------------------------ bounds
NumUsers == 2
NumURIs == 2
MaxPosts == 2
MaxRuns == 2
MaxRetriesBound == 6
MaxInitialDelay == 125
\* texts of up to MaxTextLen characters, feeds of up to MaxFeedItems items, and
\* controversy values of the model's response between -MaxRating and MaxRating
MaxTextLen == 4
MaxFeedItems == 2
MaxRating == 15

\* ------------------------------------------------------- program constants
BackoffCap == 120
DefaultMaxRetries == 5
DefaultInitialDelay == 5

None == "None"
RateLimit == "429"
OtherError == "error"

URIs == 1..NumURIs
Handles == 1..NumUsers
\* the user list file: one handle per line
UserList == [i \in 1..NumUsers |-> i]

VARIABLES
    \* safe_request: its parameters, its locals and what it did
    sr_pc, sr_op, max_retries, initial_delay, attempt, delay, result,
    calls, waits, paces, outcomes,
    \* main: position, locals
    pc, users, ui, rows, ri, new_rows, existing_uris, updated_uris,
    \* the environment: the dedup state file, the feeds, the sink's history
    file, feeds, sinkLog,
    \* bookkeeping of the run
    run, prev, loginResult, touched, fetchFailed, seen_before,
    \* one function called on its own: position, argument, what it returned, index
    fn_pc, fn_in, fn_out, fn_i

srvars == <<sr_pc, sr_op, max_retries, initial_delay, attempt, delay, result,
            calls, waits, paces, outcomes>>
mainvars == <<pc, users, ui, rows, ri, new_rows, existing_uris, updated_uris>>
envvars == <<file, feeds, sinkLog>>
runvars == <<run, prev, loginResult, fetchFailed, seen_before>>
fnvars == <<fn_pc, fn_in, fn_out, fn_i>>
vars == <<srvars, mainvars, envvars, runvars, touched, fnvars>>

Min(a, b) == IF a < b THEN a ELSE b
Last(s) == s[Len(s)]
SeqsUpTo(S, n) == UNION {[1..k -> S] : k \in 0..n}

\* ------------------------------------------------------------ safe_request
\* what a successful invocation of each wrapped operation can return
OpResults(op) ==
    CASE op = "login" -> {"session"}
      [] op = "resolve" -> {"profile", "nodid"}
      [] op = "feed" -> {"feed", "nofeed"}
      [] OTHER -> {"r1", "r2"}

\* the call: delay = initial_delay, then the for loop over range(max_retries)
SafeRequestCall(op, mr, id) ==
    /\ sr_pc' = IF mr > 0 THEN "try" ELSE "ret"
    /\ sr_op' = op
    /\ max_retries' = mr
    /\ initial_delay' = id
    /\ attempt' = 0
    /\ delay' = id
    /\ result' = None
    /\ calls' = 0
    /\ waits' = <<>>
    /\ paces' = 0
    /\ outcomes' = <<>>

SafeRequestIdle ==
    /\ sr_pc' = "idle"
    /\ sr_op' = "none"
    /\ max_retries' = 0
    /\ initial_delay' = 0
    /\ attempt' = 0
    /\ delay' = 0
    /\ result' = None
    /\ calls' = 0
    /\ waits' = <<>>
    /\ paces' = 0
    /\ outcomes' = <<>>

\* the next delay after a rate-limit failure
NextDelayUncapped(d) == d * 2
NextDelay(d) == Min(d * 2, BackoffCap)

\* the operation returns: pace, then return its result
ApiCallSucceeds ==
    /\ sr_pc = "try"
    /\ attempt < max_retries
    /\ \E r \in OpResults(sr_op) :
        /\ result' = r
        /\ outcomes' = Append(outcomes, r)
    /\ calls' = calls + 1
    /\ touched' = touched \cup {sr_op}
    /\ paces' = paces + 1
    /\ sr_pc' = "ret"
    /\ UNCHANGED <<sr_op, max_retries, initial_delay, attempt, delay, waits>>
    /\ UNCHANGED <<mainvars, envvars, runvars>>
    /\ UNCHANGED fnvars

ApiCallRateLimitedNoProgress ==
    /\ sr_pc = "try"
    /\ attempt < max_retries
    /\ calls' = calls + 1
    /\ touched' = touched \cup {sr_op}
    /\ outcomes' = Append(outcomes, RateLimit)
    /\ waits' = Append(waits, delay)
    /\ delay' = NextDelay(delay)
    /\ UNCHANGED <<sr_pc, attempt>>
    /\ UNCHANGED <<sr_op, max_retries, initial_delay, result, paces>>
    /\ UNCHANGED <<mainvars, envvars, runvars>>
    /\ UNCHANGED fnvars

\* the operation raises a rate-limit error: sleep delay, double it, next attempt
ApiCallRateLimited ==
    /\ sr_pc = "try"
    /\ attempt < max_retries
    /\ calls' = calls + 1
    /\ touched' = touched \cup {sr_op}
    /\ outcomes' = Append(outcomes, RateLimit)
    /\ waits' = Append(waits, delay)
    /\ delay' = NextDelay(delay)
    /\ attempt' = attempt + 1
    /\ sr_pc' = IF attempt + 1 < max_retries THEN "try" ELSE "ret"
    /\ UNCHANGED <<sr_op, max_retries, initial_delay, result, paces>>
    /\ UNCHANGED <<mainvars, envvars, runvars>>
    /\ UNCHANGED fnvars

ApiCallFailsNoBreak ==
    /\ sr_pc = "try"
    /\ attempt < max_retries
    /\ calls' = calls + 1
    /\ touched' = touched \cup {sr_op}
    /\ outcomes' = Append(outcomes, OtherError)
    /\ attempt' = attempt + 1
    /\ sr_pc' = IF attempt + 1 < max_retries THEN "try" ELSE "ret"
    /\ UNCHANGED <<sr_op, max_retries, initial_delay, delay, result, waits, paces>>
    /\ UNCHANGED <<mainvars, envvars, runvars>>
    /\ UNCHANGED fnvars

\* the operation raises any other error: log, break, return None
ApiCallFails ==
    /\ sr_pc = "try"
    /\ attempt < max_retries
    /\ calls' = calls + 1
    /\ touched' = touched \cup {sr_op}
    /\ outcomes' = Append(outcomes, OtherError)
    /\ sr_pc' = "ret"
    /\ UNCHANGED <<sr_op, max_retries, initial_delay, attempt, delay, result,
                   waits, paces>>
    /\ UNCHANGED <<mainvars, envvars, runvars>>
    /\ UNCHANGED fnvars

SafeRequestStep == ApiCallSucceeds \/ ApiCallRateLimited \/ ApiCallFails

\* ------------------------------------------------------------- clean_text
\* a text is a sequence of characters, each of one class: "a" an ASCII character
\* that is not whitespace, "sp" ASCII whitespace, "bmp" a non-ASCII character of
\* the basic plane, "nbsp" non-ASCII whitespace, "astral" a character above U+FFFF
IsAstral(c) == c = "astral"
IsAscii(c) == c \in {"a", "sp"}
IsSpace(c) == c \in {"sp", "nbsp"}

RECURSIVE StripLeft(_)
StripLeft(t) ==
    IF t = <<>> THEN <<>>
    ELSE IF IsSpace(Head(t)) THEN StripLeft(Tail(t)) ELSE t
RECURSIVE StripRight(_)
StripRight(t) ==
    IF t = <<>> THEN <<>>
    ELSE IF IsSpace(t[Len(t)]) THEN StripRight(SubSeq(t, 1, Len(t) - 1)) ELSE t
\* str.strip()
Strip(t) == StripRight(StripLeft(t))

NotAstral(c) == ~IsAstral(c)
clean_text_StripFirst(text) == SelectSeq(SelectSeq(Strip(text), NotAstral), IsAscii)
clean_text(text) == Strip(SelectSeq(SelectSeq(text, NotAstral), IsAscii))

\* -------------------------------------------------------- categorize_text
\* the module's client: None until set_openai_api_key has run
Initialized == "OpenAI"
\* pull.py sets the key when it is imported, before main runs
PullClient == Initialized

\* what the chat completion gives: the call raises ("callfails"), the message has
\* no content ("nocontent"), the content is not JSON ("notjson"), it is JSON but
\* no object ("notobject"), or it is an object with a category field (absent,
\* null or a label) and a controversy field of some type: absent, null, an
\* integer cval, a string of the integer cval, a string of something else, a
\* float of cval tenths, a NaN, a list
CategoryFields == {"missing", "null", "Politics & Government", "Gardening"}
Ratings == (0 - MaxRating)..MaxRating
ControversyFields ==
    {[ctype |-> t, cval |-> 0] : t \in {"missing", "null", "badstr", "nan", "list"}}
        \cup {[ctype |-> t, cval |-> n] : t \in {"int", "str"}, n \in Ratings}
        \cup {[ctype |-> "float", cval |-> (10 * n) + 5] : n \in Ratings}
Failure(k) == [kind |-> k, category |-> "missing", ctype |-> "missing", cval |-> 0]
Responses ==
    {Failure(k) : k \in {"callfails", "nocontent", "notjson", "notobject"}}
        \cup {[kind |-> "object", category |-> c, ctype |-> v.ctype, cval |-> v.cval] :
                c \in CategoryFields, v \in ControversyFields}

\* int(x) raises for None, for a string that is no integer literal, for NaN, for a list
IntRaises(ctype) == ctype \in {"null", "badstr", "nan", "list"}
\* int(x): an integer as it is, a string parsed, a float cut towards zero
int(ctype, cval) ==
    CASE ctype \in {"int", "str"} -> cval
      [] ctype = "float" -> IF cval >= 0 THEN cval \div 10 ELSE 0 - ((0 - cval) \div 10)
      [] OTHER -> 0

Fallback == [raised |-> FALSE, category |-> "Uncategorized", controversy |-> 1]
Raised == [raised |-> TRUE, category |-> None, controversy |-> 0]

categorize_text_Uncaught(client, resp) ==
    IF client = None THEN Raised
    ELSE IF resp.kind # "object" THEN Raised
    ELSE IF resp.ctype # "missing" /\ IntRaises(resp.ctype) THEN Raised
    ELSE [raised |-> FALSE,
          category |-> CASE resp.category = "missing" -> "Uncategorized"
                         [] resp.category = "null" -> None
                         [] OTHER -> resp.category,
          controversy |-> IF resp.ctype = "missing" THEN 1
                          ELSE int(resp.ctype, resp.cval)]

\* categorize_text(text): raises when the client is not set; every exception of
\* the call, of reading the content, of json.loads, of result.get and of int()
\* gives the fallback pair; else the category field (default "Uncategorized") and
\* int() of the controversy field (default 1), as they are
categorize_text(client, resp) ==
    IF client = None THEN Raised
    ELSE IF resp.kind # "object" THEN Fallback
    ELSE IF resp.ctype # "missing" /\ IntRaises(resp.ctype) THEN Fallback
    ELSE [raised |-> FALSE,
          category |-> CASE resp.category = "missing" -> "Uncategorized"
                         [] resp.category = "null" -> None
                         [] OTHER -> resp.category,
          controversy |-> IF resp.ctype = "missing" THEN 1
                          ELSE int(resp.ctype, resp.cval)]

\* ----------------------------------------------------- get_posts_for_user
\* a response of the model as it asks for it: a category label and a rating
GoodResponse ==
    [kind |-> "object", category |-> "Politics & Government", ctype |-> "int",
     cval |-> 5]

PostOutcomeKeepsReplies(post, handle, client) ==
    IF post.broken THEN [kind |-> "error", row |-> <<>>]
    ELSE IF post.reason THEN [kind |-> "skip", row |-> <<>>]
    ELSE IF Strip(post.text) = <<>> THEN [kind |-> "skip", row |-> <<>>]
    ELSE LET verdict == categorize_text(client, post.resp)
         IN IF verdict.raised THEN [kind |-> "error", row |-> <<>>]
            ELSE [kind |-> "row",
                  row |-> <<[text |-> clean_text(post.text), uri |-> post.uri,
                             handle |-> handle, category |-> verdict.category,
                             controversy |-> verdict.controversy]>>]

\* the body of the loop for one feed item: an exception is logged and the item
\* dropped ("error"), a repost, a reply or a blank text is passed over ("skip"),
\* else the text is cleaned and classified and the row appended ("row")
PostOutcome(post, handle, client) ==
    IF post.broken THEN [kind |-> "error", row |-> <<>>]
    ELSE IF post.reason THEN [kind |-> "skip", row |-> <<>>]
    ELSE IF post.reply THEN [kind |-> "skip", row |-> <<>>]
    ELSE IF Strip(post.text) = <<>> THEN [kind |-> "skip", row |-> <<>>]
    ELSE LET verdict == categorize_text(client, post.resp)
         IN IF verdict.raised THEN [kind |-> "error", row |-> <<>>]
            ELSE [kind |-> "row",
                  row |-> <<[text |-> clean_text(post.text), uri |-> post.uri,
                             handle |-> handle, category |-> verdict.category,
                             controversy |-> verdict.controversy]>>]

\* the loop over feed.feed: the rows of the items that pass the filters
RECURSIVE RowsOf(_, _)
RowsOf(feed, handle) ==
    IF feed = <<>> THEN <<>>
    ELSE PostOutcome(Head(feed), handle, PullClient).row \o RowsOf(Tail(feed), handle)

\* ------------------------------------------------------ the dedup state file
\* load_existing_post_uris: the set read, or the exception leaving main
\* ("unreadable": open raises outside the try; "notdict": JSON that is no object,
\* data.get raises AttributeError; "urisnotlist": a record whose uris field is a
\* number or null, set(...) raises TypeError; only JSONDecodeError is caught)
load_existing_post_uris(f) ==
    CASE f.kind = "absent" -> [raised |-> FALSE, uris |-> {}]
      [] f.kind = "notjson" -> [raised |-> FALSE, uris |-> {}]
      [] f.kind = "notdict" -> [raised |-> TRUE, uris |-> {}]
      [] f.kind = "unreadable" -> [raised |-> TRUE, uris |-> {}]
      [] f.kind = "urisnotlist" -> [raised |-> TRUE, uris |-> {}]
      [] OTHER -> [raised |-> FALSE, uris |-> f.uris]

\* open(SCRAPED_DATA_FILE, 'w'): the file is truncated before anything is written
Truncated == [kind |-> "notjson", uris |-> {}]
\* json.dump({"uris": list(uris)}, f) written out and the file closed
Dumped(uris) == [kind |-> "record", uris |-> uris]

RowURIs(rs) == {rs[i].uri : i \in DOMAIN rs}

\* ---------------------------------------------------------------- main
MainIdle ==
    /\ pc = "lib"
    /\ users = <<>>
    /\ ui = 0
    /\ rows = <<>>
    /\ ri = 0
    /\ new_rows = <<>>
    /\ existing_uris = {}
    /\ updated_uris = {}
    /\ file = [kind |-> "absent", uris |-> {}]
    /\ feeds = [h \in Handles |-> <<>>]
    /\ sinkLog = <<>>
    /\ run = 1
    /\ prev = [done |-> FALSE, fetchOk |-> FALSE, sent |-> FALSE]
    /\ loginResult = "pending"
    /\ touched = {}
    /\ fetchFailed = FALSE
    /\ seen_before = {}

\* no function is being called on its own
FnIdle ==
    /\ fn_pc = "none"
    /\ fn_in = <<>>
    /\ fn_out = <<>>
    /\ fn_i = 0

\* safe_request alone, called with any retry policy on any operation
InitSR ==
    /\ MainIdle
    /\ FnIdle
    /\ \E mr \in 0..MaxRetriesBound, id \in 1..MaxInitialDelay :
        /\ sr_pc = IF mr > 0 THEN "try" ELSE "ret"
        /\ sr_op = "op"
        /\ max_retries = mr
        /\ initial_delay = id
        /\ attempt = 0
        /\ delay = id
        /\ result = None
        /\ calls = 0
        /\ waits = <<>>
        /\ paces = 0
        /\ outcomes = <<>>

NextSR == SafeRequestStep
SpecSR == InitSR /\ [][NextSR]_vars

\* a process start: nothing of an earlier process is left but the file
PlainPost(u) ==
    [uri |-> u, reason |-> FALSE, reply |-> FALSE, text |-> <<"a">>, broken |-> FALSE,
     resp |-> GoodResponse]
\* the feeds of the users: original posts with text, MaxPosts of them in all, a
\* URI possibly listed twice in a feed or in the feeds of two users
RECURSIVE SumLen(_, _)
SumLen(f, n) == IF n = 0 THEN 0 ELSE Len(f[n]) + SumLen(f, n - 1)
Feeds ==
    {f \in [Handles -> SeqsUpTo({PlainPost(u) : u \in URIs}, MaxPosts)] :
        SumLen(f, NumUsers) <= MaxPosts}
\* the dedup state file at the first start: absent, JSON that is not a record, or
\* the record of an earlier run, its URIs numbered first (a file cut short by an
\* interrupted save is what Truncated leaves to the next run)
InitialFiles ==
    {[kind |-> k, uris |-> {}] : k \in {"absent", "notdict", "unreadable", "urisnotlist"}}
        \cup {[kind |-> "record", uris |-> 1..k] : k \in 0..NumURIs}

Init ==
    /\ pc = "login"
    /\ users = <<>>
    /\ ui = 0
    /\ rows = <<>>
    /\ ri = 0
    /\ new_rows = <<>>
    /\ existing_uris = {}
    /\ updated_uris = {}
    /\ file \in InitialFiles
    /\ feeds \in Feeds
    /\ sinkLog = <<>>
    /\ run = 1
    /\ prev = [done |-> FALSE, fetchOk |-> FALSE, sent |-> FALSE]
    /\ loginResult = "pending"
    /\ touched = {}
    /\ fetchFailed = FALSE
    /\ seen_before = {}
    /\ FnIdle
    /\ sr_pc = "idle"
    /\ sr_op = "none"
    /\ max_retries = 0
    /\ initial_delay = 0
    /\ attempt = 0
    /\ delay = 0
    /\ result = None
    /\ calls = 0
    /\ waits = <<>>
    /\ paces = 0
    /\ outcomes = <<>>

\* main: safe_request(client.login, USERNAME, PASSWORD)
LoginCall ==
    /\ pc = "login"
    /\ SafeRequestCall("login", DefaultMaxRetries, DefaultInitialDelay)
    /\ pc' = "login_wait"
    /\ UNCHANGED <<users, ui, rows, ri, new_rows, existing_uris, updated_uris>>
    /\ UNCHANGED <<envvars, runvars, touched>>
    /\ UNCHANGED fnvars

\* safe_request has returned: its result is dropped and main goes on; the except
\* branch of main is never entered, safe_request raising nothing
LoginReturn ==
    /\ pc = "login_wait"
    /\ sr_pc = "ret"
    /\ loginResult' = result
    /\ SafeRequestIdle
    /\ pc' = "users"
    /\ UNCHANGED <<users, ui, rows, ri, new_rows, existing_uris, updated_uris>>
    /\ UNCHANGED <<envvars, run, prev, fetchFailed, seen_before, touched>>
    /\ UNCHANGED fnvars

\* get_user_list: the handles of the file
GetUserList ==
    /\ pc = "users"
    /\ users' = UserList
    /\ pc' = IF UserList = <<>> THEN "returned" ELSE "load"
    /\ UNCHANGED <<ui, rows, ri, new_rows, existing_uris, updated_uris>>
    /\ UNCHANGED <<srvars, envvars, runvars, touched>>
    /\ UNCHANGED fnvars

\* get_user_list: the file cannot be read, [] is returned and main returns
GetUserListFails ==
    /\ pc = "users"
    /\ users' = <<>>
    /\ pc' = "returned"
    /\ UNCHANGED <<ui, rows, ri, new_rows, existing_uris, updated_uris>>
    /\ UNCHANGED <<srvars, envvars, runvars, touched>>
    /\ UNCHANGED fnvars

\* existing_uris = load_existing_post_uris(); updated_uris = set(existing_uris)
Load ==
    /\ pc = "load"
    /\ ~load_existing_post_uris(file).raised
    /\ existing_uris' = load_existing_post_uris(file).uris
    /\ updated_uris' = load_existing_post_uris(file).uris
    /\ ui' = 1
    /\ pc' = "user"
    /\ UNCHANGED <<users, rows, ri, new_rows>>
    /\ UNCHANGED <<srvars, envvars, runvars, touched>>
    /\ UNCHANGED fnvars

\* load_existing_post_uris raises an error it does not catch: main ends with it
LoadRaises ==
    /\ pc = "load"
    /\ load_existing_post_uris(file).raised
    /\ pc' = "crashed"
    /\ UNCHANGED <<users, ui, rows, ri, new_rows, existing_uris, updated_uris>>
    /\ UNCHANGED <<srvars, envvars, runvars, touched>>
    /\ UNCHANGED fnvars

\* for user in users: new_rows = []; get_posts_for_user resolves the handle
ResolveCall ==
    /\ pc = "user"
    /\ ui <= Len(users)
    /\ new_rows' = <<>>
    /\ rows' = <<>>
    /\ seen_before' = updated_uris
    /\ SafeRequestCall("resolve", DefaultMaxRetries, DefaultInitialDelay)
    /\ pc' = "resolve_wait"
    /\ UNCHANGED <<users, ui, ri, existing_uris, updated_uris>>
    /\ UNCHANGED <<envvars, run, prev, loginResult, fetchFailed, touched>>
    /\ UNCHANGED fnvars

\* no profile, or one without a did: get_posts_for_user returns []
ResolveFails ==
    /\ pc = "resolve_wait"
    /\ sr_pc = "ret"
    /\ result # "profile"
    /\ SafeRequestIdle
    /\ rows' = <<>>
    /\ ri' = 1
    /\ fetchFailed' = TRUE
    /\ pc' = "dedup"
    /\ UNCHANGED <<users, ui, new_rows, existing_uris, updated_uris>>
    /\ UNCHANGED <<envvars, run, prev, loginResult, seen_before, touched>>
    /\ UNCHANGED fnvars

\* the handle is resolved: get_posts_for_user fetches the author's feed
FeedCall ==
    /\ pc = "resolve_wait"
    /\ sr_pc = "ret"
    /\ result = "profile"
    /\ SafeRequestCall("feed", DefaultMaxRetries, DefaultInitialDelay)
    /\ pc' = "feed_wait"
    /\ UNCHANGED <<users, ui, rows, ri, new_rows, existing_uris, updated_uris>>
    /\ UNCHANGED <<envvars, runvars, touched>>
    /\ UNCHANGED fnvars

\* no feed, or a response without one: get_posts_for_user returns []
FeedFails ==
    /\ pc = "feed_wait"
    /\ sr_pc = "ret"
    /\ result # "feed"
    /\ SafeRequestIdle
    /\ rows' = <<>>
    /\ ri' = 1
    /\ fetchFailed' = TRUE
    /\ pc' = "dedup"
    /\ UNCHANGED <<users, ui, new_rows, existing_uris, updated_uris>>
    /\ UNCHANGED <<envvars, run, prev, loginResult, seen_before, touched>>
    /\ UNCHANGED fnvars

\* the feed is there: get_posts_for_user returns the rows of its items
FeedRows ==
    /\ pc = "feed_wait"
    /\ sr_pc = "ret"
    /\ result = "feed"
    /\ SafeRequestIdle
    /\ rows' = RowsOf(feeds[users[ui]], users[ui])
    /\ ri' = 1
    /\ pc' = "dedup"
    /\ UNCHANGED <<users, ui, new_rows, existing_uris, updated_uris>>
    /\ UNCHANGED <<envvars, runvars, touched>>
    /\ UNCHANGED fnvars

\* for row in rows: a row whose uri is in updated_uris is dropped
DedupSkip ==
    /\ pc = "dedup"
    /\ ri <= Len(rows)
    /\ rows[ri].uri \in updated_uris
    /\ ri' = ri + 1
    /\ UNCHANGED <<pc, users, ui, rows, new_rows, existing_uris, updated_uris>>
    /\ UNCHANGED <<srvars, envvars, runvars, touched>>
    /\ UNCHANGED fnvars

DedupKeepUnmarked ==
    /\ pc = "dedup"
    /\ ri <= Len(rows)
    /\ rows[ri].uri \notin updated_uris
    /\ new_rows' = Append(new_rows, rows[ri])
    /\ ri' = ri + 1
    /\ UNCHANGED <<pc, users, ui, rows, existing_uris, updated_uris>>
    /\ UNCHANGED <<srvars, envvars, runvars, touched>>
    /\ UNCHANGED fnvars

DedupKeepVsLoaded ==
    /\ pc = "dedup"
    /\ ri <= Len(rows)
    /\ rows[ri].uri \notin existing_uris
    /\ new_rows' = Append(new_rows, rows[ri])
    /\ updated_uris' = updated_uris \cup {rows[ri].uri}
    /\ ri' = ri + 1
    /\ UNCHANGED <<pc, users, ui, rows, existing_uris>>
    /\ UNCHANGED <<srvars, envvars, runvars, touched>>
    /\ UNCHANGED fnvars

\* for row in rows: a row whose uri is not in updated_uris is kept and its uri added
DedupKeep ==
    /\ pc = "dedup"
    /\ ri <= Len(rows)
    /\ rows[ri].uri \notin updated_uris
    /\ new_rows' = Append(new_rows, rows[ri])
    /\ updated_uris' = updated_uris \cup {rows[ri].uri}
    /\ ri' = ri + 1
    /\ UNCHANGED <<pc, users, ui, rows, existing_uris>>
    /\ UNCHANGED <<srvars, envvars, runvars, touched>>
    /\ UNCHANGED fnvars

SendToGoogleSheetsAlways ==
    /\ pc = "dedup"
    /\ ri > Len(rows)
    /\ \E o \in {"ok", RateLimit, OtherError} :
        sinkLog' = Append(sinkLog, [rows |-> new_rows, handle |-> users[ui],
                                    outcome |-> o, attempts |-> 1])
    /\ touched' = touched \cup {"sink"}
    /\ pc' = "save"
    /\ UNCHANGED <<users, ui, rows, ri, new_rows, existing_uris, updated_uris>>
    /\ UNCHANGED <<srvars, file, feeds, runvars>>
    /\ UNCHANGED fnvars

\* if new_rows: send_to_google_sheets(new_rows), one execute() of the append,
\* whose error, whatever it is, is logged and dropped
SendToGoogleSheets ==
    /\ pc = "dedup"
    /\ ri > Len(rows)
    /\ new_rows # <<>>
    /\ \E o \in {"ok", RateLimit, OtherError} :
        sinkLog' = Append(sinkLog, [rows |-> new_rows, handle |-> users[ui],
                                    outcome |-> o, attempts |-> 1])
    /\ touched' = touched \cup {"sink"}
    /\ pc' = "save"
    /\ UNCHANGED <<users, ui, rows, ri, new_rows, existing_uris, updated_uris>>
    /\ UNCHANGED <<srvars, file, feeds, runvars>>
    /\ UNCHANGED fnvars

\* else: no new posts for the user
NoNewRows ==
    /\ pc = "dedup"
    /\ ri > Len(rows)
    /\ new_rows = <<>>
    /\ pc' = "sleep"
    /\ UNCHANGED <<users, ui, rows, ri, new_rows, existing_uris, updated_uris>>
    /\ UNCHANGED <<srvars, envvars, runvars, touched>>
    /\ UNCHANGED fnvars

\* save_post_uris(updated_uris): open(..., 'w') truncates the file
SaveOpen ==
    /\ pc = "save"
    /\ file' = Truncated
    /\ touched' = touched \cup {"save"}
    /\ pc' = "dump"
    /\ UNCHANGED <<users, ui, rows, ri, new_rows, existing_uris, updated_uris>>
    /\ UNCHANGED <<srvars, feeds, sinkLog, runvars>>
    /\ UNCHANGED fnvars

\* save_post_uris: the open fails, the error leaves main
SaveOpenFails ==
    /\ pc = "save"
    /\ pc' = "crashed"
    /\ UNCHANGED <<users, ui, rows, ri, new_rows, existing_uris, updated_uris>>
    /\ UNCHANGED <<srvars, envvars, runvars, touched>>
    /\ UNCHANGED fnvars

SaveDumpLoaded ==
    /\ pc = "dump"
    /\ file' = Dumped(existing_uris)
    /\ pc' = "sleep"
    /\ UNCHANGED <<users, ui, rows, ri, new_rows, existing_uris, updated_uris>>
    /\ UNCHANGED <<srvars, feeds, sinkLog, runvars, touched>>
    /\ UNCHANGED fnvars

\* save_post_uris: json.dump writes the record and the file is closed
SaveDump ==
    /\ pc = "dump"
    /\ file' = Dumped(updated_uris)
    /\ pc' = "sleep"
    /\ UNCHANGED <<users, ui, rows, ri, new_rows, existing_uris, updated_uris>>
    /\ UNCHANGED <<srvars, feeds, sinkLog, runvars, touched>>
    /\ UNCHANGED fnvars

\* save_post_uris: the write fails part way, the error leaves main
SaveDumpFails ==
    /\ pc = "dump"
    /\ pc' = "crashed"
    /\ UNCHANGED <<users, ui, rows, ri, new_rows, existing_uris, updated_uris>>
    /\ UNCHANGED <<srvars, envvars, runvars, touched>>
    /\ UNCHANGED fnvars

\* the process is terminated from outside between the send and the end of the save
Kill ==
    /\ pc \in {"save", "dump"}
    /\ pc' = "killed"
    /\ UNCHANGED <<users, ui, rows, ri, new_rows, existing_uris, updated_uris>>
    /\ UNCHANGED <<srvars, envvars, runvars, touched>>
    /\ UNCHANGED fnvars

\* time.sleep(DELAY_BETWEEN_USERS), then the next user
Sleep ==
    /\ pc = "sleep"
    /\ ui' = ui + 1
    /\ pc' = "user"
    /\ UNCHANGED <<users, rows, ri, new_rows, existing_uris, updated_uris>>
    /\ UNCHANGED <<srvars, envvars, runvars, touched>>
    /\ UNCHANGED fnvars

\* the user list is exhausted: the final log line
Finish ==
    /\ pc = "user"
    /\ ui > Len(users)
    /\ pc' = "done"
    /\ UNCHANGED <<users, ui, rows, ri, new_rows, existing_uris, updated_uris>>
    /\ UNCHANGED <<srvars, envvars, runvars, touched>>
    /\ UNCHANGED fnvars

\* the next run of the script: a new process, the same user list and feeds, the
\* dedup state file as the last process left it; prev says of the run before
\* whether it ran to completion, whether every fetch of it succeeded as well, and
\* whether it then also called the sink
Restart ==
    /\ pc \in {"done", "returned", "crashed", "killed"}
    /\ run < MaxRuns
    /\ run' = run + 1
    /\ prev' = [done |-> pc = "done",
                fetchOk |-> pc = "done" /\ ~fetchFailed,
                sent |-> pc = "done" /\ ~fetchFailed /\ sinkLog # <<>>]
    /\ pc' = "login"
    /\ users' = <<>>
    /\ ui' = 0
    /\ rows' = <<>>
    /\ ri' = 0
    /\ new_rows' = <<>>
    /\ existing_uris' = {}
    /\ updated_uris' = {}
    /\ sinkLog' = <<>>
    /\ loginResult' = "pending"
    /\ touched' = {}
    /\ fetchFailed' = FALSE
    /\ seen_before' = {}
    /\ UNCHANGED <<srvars, file, feeds>>
    /\ UNCHANGED fnvars

Next ==
    \/ SafeRequestStep
    \/ LoginCall \/ LoginReturn
    \/ GetUserList \/ GetUserListFails
    \/ Load \/ LoadRaises
    \/ ResolveCall \/ ResolveFails \/ FeedCall \/ FeedFails \/ FeedRows
    \/ DedupSkip \/ DedupKeep
    \/ SendToGoogleSheets \/ NoNewRows
    \/ SaveOpen \/ SaveOpenFails \/ SaveDump \/ SaveDumpFails
    \/ Kill \/ Sleep \/ Finish \/ Restart

Spec == Init /\ [][Next]_vars

\* ------------------------------------------- the functions called on their own
\* safe_request is not being called
SafeRequestNotCalled ==
    /\ sr_pc = "idle"
    /\ sr_op = "none"
    /\ max_retries = 0
    /\ initial_delay = 0
    /\ attempt = 0
    /\ delay = 0
    /\ result = None
    /\ calls = 0
    /\ waits = <<>>
    /\ paces = 0
    /\ outcomes = <<>>

Chars == {"a", "sp", "bmp", "nbsp", "astral"}
Texts == SeqsUpTo(Chars, MaxTextLen)

\* clean_text called on any text, and once more on what it returned
InitClean ==
    /\ MainIdle
    /\ SafeRequestNotCalled
    /\ fn_pc = "clean_text"
    /\ fn_in \in Texts
    /\ fn_out = <<>>
    /\ fn_i = 0

CleanText ==
    /\ fn_pc = "clean_text"
    /\ Len(fn_out) < 2
    /\ fn_out' = Append(fn_out, clean_text(IF fn_out = <<>> THEN fn_in ELSE Last(fn_out)))
    /\ UNCHANGED <<fn_pc, fn_in, fn_i>>
    /\ UNCHANGED <<srvars, mainvars, envvars, runvars, touched>>

NextClean == CleanText
SpecClean == InitClean /\ [][NextClean]_vars

\* categorize_text called with the client set or not, on any response of the model
InitClassify ==
    /\ MainIdle
    /\ SafeRequestNotCalled
    /\ fn_pc = "categorize_text"
    /\ fn_in \in [client : {None, Initialized}, resp : Responses]
    /\ fn_out = <<>>
    /\ fn_i = 0

Categorize ==
    /\ fn_pc = "categorize_text"
    /\ fn_out' = <<categorize_text(fn_in.client, fn_in.resp)>>
    /\ fn_pc' = "classified"
    /\ UNCHANGED <<fn_in, fn_i>>
    /\ UNCHANGED <<srvars, mainvars, envvars, runvars, touched>>

NextClassify == Categorize
SpecClassify == InitClassify /\ [][NextClassify]_vars

\* the feed items: a repost or not, a reply or not, one whose record cannot be
\* read or not, a text that is empty, blank, plain or a single emoji, and a
\* response of the model that is well formed or missing
FetchTexts == {<<>>, <<"sp">>, <<"a">>, <<"astral">>}
FetchItems ==
    [reason : BOOLEAN, reply : BOOLEAN, broken : BOOLEAN, text : FetchTexts,
     resp : {GoodResponse, Failure("callfails")}]
\* a fetched feed: each item under its own URI, numbered in feed order
FetchFeeds ==
    {[i \in DOMAIN f |->
        [uri |-> i, reason |-> f[i].reason, reply |-> f[i].reply,
         broken |-> f[i].broken, text |-> f[i].text, resp |-> f[i].resp]] :
        f \in SeqsUpTo(FetchItems, MaxFeedItems)}

\* get_posts_for_user at its loop, the feed fetched
InitFetch ==
    /\ MainIdle
    /\ SafeRequestNotCalled
    /\ fn_pc = "fetch"
    /\ fn_in \in [client : {None, Initialized}, handle : {1}, feed : FetchFeeds]
    /\ fn_out = <<>>
    /\ fn_i = 1

\* what the loop body does with the item at fn_i
Outcome == PostOutcome(fn_in.feed[fn_i], fn_in.handle, fn_in.client)

FetchPostErrorEndsLoop ==
    /\ fn_pc = "fetch"
    /\ fn_i <= Len(fn_in.feed)
    /\ Outcome.kind = "error"
    /\ fn_pc' = "fetched"
    /\ UNCHANGED <<fn_in, fn_out, fn_i>>
    /\ UNCHANGED <<srvars, mainvars, envvars, runvars, touched>>

\* except Exception: the warning is logged and the loop goes on
FetchPostError ==
    /\ fn_pc = "fetch"
    /\ fn_i <= Len(fn_in.feed)
    /\ Outcome.kind = "error"
    /\ fn_i' = fn_i + 1
    /\ UNCHANGED <<fn_pc, fn_in, fn_out>>
    /\ UNCHANGED <<srvars, mainvars, envvars, runvars, touched>>

\* continue: the item is a repost, a reply or has no text
FetchPostSkip ==
    /\ fn_pc = "fetch"
    /\ fn_i <= Len(fn_in.feed)
    /\ Outcome.kind = "skip"
    /\ fn_i' = fn_i + 1
    /\ UNCHANGED <<fn_pc, fn_in, fn_out>>
    /\ UNCHANGED <<srvars, mainvars, envvars, runvars, touched>>

\* rows.append([...])
FetchPostRow ==
    /\ fn_pc = "fetch"
    /\ fn_i <= Len(fn_in.feed)
    /\ Outcome.kind = "row"
    /\ fn_out' = fn_out \o Outcome.row
    /\ fn_i' = fn_i + 1
    /\ UNCHANGED <<fn_pc, fn_in>>
    /\ UNCHANGED <<srvars, mainvars, envvars, runvars, touched>>

\* return rows
FetchReturn ==
    /\ fn_pc = "fetch"
    /\ fn_i > Len(fn_in.feed)
    /\ fn_pc' = "fetched"
    /\ UNCHANGED <<fn_in, fn_out, fn_i>>
    /\ UNCHANGED <<srvars, mainvars, envvars, runvars, touched>>

NextFetch == FetchPostError \/ FetchPostSkip \/ FetchPostRow \/ FetchReturn
SpecFetch == InitFetch /\ [][NextFetch]_vars


\* ---------------------------------------------------------- main: properties
\* the URIs of the rows passed to the sink in the sink calls of this run
SentURIs == UNION {RowURIs(sinkLog[i].rows) : i \in DOMAIN sinkLog}
\* the persisted seen-set, as load would return it
Persisted == load_existing_post_uris(file).uris
\* the process is running and has loaded the seen-set
Running == pc \in {"user", "resolve_wait", "feed_wait", "dedup", "save", "dump", "sleep"}

\* C1: when the login call fails (safe_request returns None), the run is aborted
\* before any user processing: no handle is resolved, no feed is fetched, the sink
\* is never called and the seen-set is never written.
C1_LoginFailureAborts ==
    loginResult = None =>
        /\ touched \cap {"resolve", "feed", "sink", "save"} = {}
        /\ sinkLog = <<>>

\* C2: in a run whose login succeeded, the URIs of a batch whose sink append
\* failed are not in the persisted seen-set.
C2_FailedAppendNotPersisted ==
    loginResult = "session" =>
        \A i \in DOMAIN sinkLog :
            sinkLog[i].outcome # "ok" => RowURIs(sinkLog[i].rows) \cap Persisted = {}

\* C3: in every state of a run, the URIs in the in-memory seen-set that were not
\* loaded at start are exactly those of the rows passed to the sink in this run's
\* sink calls and of the batch being assembled or sent for the current user; and
\* once this run has written the seen-set, every persisted URI that was not loaded
\* at start is of a row passed to the sink.
C3_SeenIffSent ==
    /\ updated_uris \ existing_uris = SentURIs \cup RowURIs(new_rows)
    /\ (SentURIs \cup RowURIs(new_rows)) \cap existing_uris = {}
    /\ "save" \in touched => (Persisted \ existing_uris) \subseteq SentURIs

\* the second user's batch is being assembled, the first user's was sent and saved
C3_Witness ==
    /\ pc = "dedup"
    /\ ui = 2
    /\ new_rows # <<>>
    /\ Len(sinkLog) = 1
    /\ Persisted # {}
    /\ Persisted # updated_uris

\* C7: a rate-limit failure of any remote call of the pipeline (login, handle
\* resolution, feed retrieval, spreadsheet append) is retried up to the attempt
\* limit before the unit of work is given up: a call given up after rate-limit
\* failures alone was attempted DefaultMaxRetries times.
C7_EveryRemoteCallRetried ==
    /\ loginResult = "session" =>
        \A i \in DOMAIN sinkLog :
            sinkLog[i].outcome = RateLimit => sinkLog[i].attempts = DefaultMaxRetries
    /\ (sr_pc = "ret" /\ outcomes # <<>> /\ Last(outcomes) = RateLimit)
        => calls = DefaultMaxRetries

\* C8: the dedup loop over the fetched rows R, started with the seen-set S, keeps
\* rows whose URIs are exactly those of R not in S, keeps no row whose URI is in S,
\* and leaves the seen-set equal to S with the URIs of R added (stated for every
\* prefix of R the loop has gone through, the whole of R at its end).
C8_DedupFilter ==
    pc = "dedup" =>
        LET R == SubSeq(rows, 1, ri - 1) IN
        /\ RowURIs(new_rows) = RowURIs(R) \ seen_before
        /\ \A i \in DOMAIN new_rows : new_rows[i].uri \notin seen_before
        /\ updated_uris = seen_before \cup RowURIs(R)

\* the loop has ended on a feed that lists one new URI twice, another URI being seen
C8_Witness ==
    /\ pc = "dedup"
    /\ ri > Len(rows)
    /\ Len(rows) = 2
    /\ rows[1].uri = rows[2].uri
    /\ seen_before # {}
    /\ Len(new_rows) = 1

\* what C9 concludes of a run: no new row, no sink call, no write of the seen-set
NothingNew ==
    /\ new_rows = <<>>
    /\ sinkLog = <<>>
    /\ "sink" \notin touched
    /\ "save" \notin touched
    /\ updated_uris = existing_uris

\* C9 (as claimed): a run, logged in, that follows a run that ran to completion,
\* with the same user list and feeds and the seen-set that run left, produces no
\* new row, makes no sink call and does not rewrite the seen-set.
C9_RerunIdempotent == (run > 1 /\ prev.done /\ loginResult = "session") => NothingNew

\* C9 (amended): the same, when in the earlier run every handle resolution and
\* every feed retrieval succeeded.
C9_RerunIdempotentAfterFullFetch == (run > 1 /\ prev.done /\ prev.fetchOk) => NothingNew

\* a second run has ended after fetching rows that the first run sent and saved
C9_Witness ==
    /\ run = 2
    /\ pc = "done"
    /\ prev.fetchOk
    /\ prev.sent
    /\ ~fetchFailed
    /\ rows # <<>>
    /\ loginResult # None

\* C10: each time the orchestrator starts processing a user the persisted seen-set
\* equals the in-memory one, and wherever the running process may be terminated
\* every URI in memory but not persisted is of the current user's batch.
C10_CrashLosesOneUser ==
    loginResult = "session" =>
        /\ (pc = "user" /\ ui <= Len(users)) => Persisted = updated_uris
        /\ Running => (updated_uris \ Persisted) \subseteq RowURIs(new_rows)

\* the file holds a well-formed record
WellFormed(f) == f.kind = "record"

\* C11: whatever the dedup state file holds, load does not raise and the run goes
\* on to process users: main never ends at the load, and the set loaded is the
\* file's URIs when the file is a well-formed record and the empty set otherwise.
C11_LoadNeverRaises ==
    /\ ~(pc = "crashed" /\ ui = 0)
    /\ (pc = "user" /\ ui = 1) =>
        existing_uris = (IF WellFormed(file) THEN file.uris ELSE {})

\* C12: after login, with the users read and the seen-set loaded, no failure
\* while processing a user keeps the following users from being processed: main
\* never ends with an error while users are left.
C12_NoFailureStopsTheRun ==
    ~(loginResult = "session" /\ pc = "crashed" /\ ui >= 1 /\ ui <= Len(users))

\* C17: the seen-set is never pruned: no step of a run removes a URI from the
\* in-memory set, and when a process has ended the persisted set still holds every
\* URI it held when the process loaded it.
C17_SeenSetNeverPruned ==
    /\ [][pc' # "login" => updated_uris \subseteq updated_uris']_vars
    /\ [](pc \in {"done", "returned", "crashed", "killed"}
            => existing_uris \subseteq Persisted)

\* the URIs of the rows of all sink calls of the run, in the order passed
RECURSIVE SentSeq(_)
SentSeq(log) ==
    IF log = <<>> THEN <<>>
    ELSE SentSeq(SubSeq(log, 1, Len(log) - 1)) \o
         [i \in DOMAIN log[Len(log)].rows |-> log[Len(log)].rows[i].uri]
NoRepeats(s) == \A i, j \in DOMAIN s : i # j => s[i] # s[j]

\* C20: within a run the URIs of the rows passed to the sink, over all sink calls
\* and within each batch, are pairwise distinct and none was loaded at start; the
\* sink is called at most once per user and only with a non-empty batch.
C20_NoURISentTwice ==
    /\ NoRepeats(SentSeq(sinkLog))
    /\ SentURIs \cap existing_uris = {}
    /\ \A i \in DOMAIN sinkLog : sinkLog[i].rows # <<>>
    /\ \A i, j \in DOMAIN sinkLog : i < j => sinkLog[i].handle < sinkLog[j].handle
    /\ Len(sinkLog) <= ui

\* both users were fetched, their feeds list the same URI, and it was sent once
C20_Witness ==
    /\ pc = "done"
    /\ ~fetchFailed
    /\ feeds[1] # <<>>
    /\ feeds[2] # <<>>
    /\ feeds[1][1].uri = feeds[2][1].uri
    /\ Len(sinkLog) = 1
    /\ Len(sinkLog[1].rows) = 1

\* ------------------------------------------------- safe_request: properties
IsSuccess(o) == o \notin {RateLimit, OtherError}
NonDecreasing(s) == \A i \in 1..(Len(s) - 1) : s[i] <= s[i + 1]
RateLimitsBefore(n) == \A i \in 1..(n - 1) : outcomes[i] = RateLimit
\* the operation failed with a rate-limit signal k times and then succeeded
RateThenSuccess ==
    /\ outcomes # <<>>
    /\ IsSuccess(Last(outcomes))
    /\ RateLimitsBefore(Len(outcomes))
BackoffContract ==
    LET k == Len(outcomes) - 1 IN
    /\ result = Last(outcomes)
    /\ Len(waits) = k
    /\ calls = k + 1
    /\ NonDecreasing(waits)
    /\ \A i \in 1..Len(waits) : waits[i] <= BackoffCap

\* C4 (as claimed): for every initial_delay >= 1 and max_retries >= 1, k < max_retries
\* rate-limit failures followed by a success give the success result after exactly
\* k backoff waits and k+1 invocations, the waits non-decreasing and none above 120.
C4_BackoffAnyInitialDelay ==
    (sr_pc = "ret" /\ RateThenSuccess /\ initial_delay >= 1 /\ max_retries >= 1
        /\ Len(outcomes) - 1 < max_retries)
    => BackoffContract

\* C4 (amended): the same for every initial_delay in 1..120, the range in which the
\* first wait, which is initial_delay itself and is never capped, is within the cap.
C4_BackoffWithinCap ==
    (sr_pc = "ret" /\ RateThenSuccess /\ initial_delay \in 1..BackoffCap
        /\ max_retries >= 1 /\ Len(outcomes) - 1 < max_retries)
    => BackoffContract

\* three rate-limit failures, then a success, the doubled delay having hit the cap
C4_Witness ==
    /\ sr_pc = "ret"
    /\ RateThenSuccess
    /\ initial_delay \in 1..(BackoffCap - 1)
    /\ Len(waits) = 3
    /\ waits[1] < waits[2]
    /\ waits[3] = BackoffCap
    /\ result = Last(outcomes)

\* C5: once an invocation fails with an error that is not a rate-limit signal,
\* safe_request returns None: that failure is the last invocation, no pacing delay
\* was made and the only backoff waits are those of the rate-limit failures before it.
C5_OtherErrorReturnsNone ==
    /\ \A i \in 1..Len(outcomes) : outcomes[i] = OtherError => i = Len(outcomes)
    /\ (outcomes # <<>> /\ Last(outcomes) = OtherError) =>
        /\ sr_pc = "ret"
        /\ result = None
        /\ calls = Len(outcomes)
        /\ paces = 0
        /\ RateLimitsBefore(Len(outcomes))
        /\ Len(waits) = Len(outcomes) - 1

\* an error that is not a rate limit, after two rate-limit failures
C5_Witness ==
    /\ sr_pc = "ret"
    /\ Len(outcomes) = 3
    /\ outcomes[1] = RateLimit
    /\ outcomes[3] = OtherError
    /\ result = None

SafeRequestBounded ==
    /\ calls = Len(outcomes)
    /\ calls <= max_retries
    /\ sr_pc \in {"try", "ret"}
    /\ sr_pc = "try" => (attempt < max_retries /\ calls = attempt
                          /\ RateLimitsBefore(Len(outcomes) + 1))
    /\ sr_pc = "ret" =>
        /\ result \in OpResults(sr_op) \cup {None}
        /\ (outcomes # <<>> /\ IsSuccess(Last(outcomes))) => result = Last(outcomes)
        /\ (outcomes = <<>> \/ ~IsSuccess(Last(outcomes))) => result = None
        /\ (calls = max_retries /\ RateLimitsBefore(max_retries + 1)) => result = None

\* C6: whatever the operation does, safe_request makes at most max_retries
\* invocations (every step of the loop is one more invocation, and the loop is
\* left by then), and it returns the operation's result or None: None when every
\* one of the max_retries attempts failed with a rate-limit signal.
C6_TerminatesWithResultOrNone ==
    /\ []SafeRequestBounded
    /\ [][calls' = calls + 1 /\ calls' <= max_retries]_srvars

\* every attempt was rate limited and the attempts are used up
C6_Witness ==
    /\ sr_pc = "ret"
    /\ max_retries = DefaultMaxRetries
    /\ calls = max_retries
    /\ RateLimitsBefore(max_retries + 1)
    /\ result = None

\* ------------------------------------------ get_posts_for_user: properties
\* the item at i of the feed being processed
Item(i) == fn_in.feed[i]
\* its text is not empty once the whitespace around it is taken off
HasText(i) == \E j \in DOMAIN Item(i).text : Item(i).text[j] \notin {"sp", "nbsp"}
\* it is no repost, no reply and has text
PassesFilters(i) == ~Item(i).reason /\ ~Item(i).reply /\ HasText(i)
\* processing it raises: its record cannot be read, or it reaches the classifier
\* and the classifier raises
Errors(i) == Item(i).broken \/ (PassesFilters(i) /\ fn_in.client = None)
\* it yielded a row
HasRow(i) == \E k \in DOMAIN fn_out : fn_out[k].uri = i

\* C13: every item of the fetched feed that was processed without error yielded a
\* row if and only if it is no repost, no reply and its text is not blank; the
\* rows are in feed order, at most one for an item.
C13_RowIffPassesFilters ==
    fn_pc \in {"fetch", "fetched"} =>
        /\ \A i \in 1..(fn_i - 1) : ~Errors(i) => (HasRow(i) <=> PassesFilters(i))
        /\ \A k, l \in DOMAIN fn_out : k < l => fn_out[k].uri < fn_out[l].uri

\* a reply, then a post that passes: one row, of the second item
C13_Witness ==
    /\ fn_pc = "fetched"
    /\ Len(fn_in.feed) = 2
    /\ Item(1).reply
    /\ ~Errors(1)
    /\ ~Errors(2)
    /\ PassesFilters(2)
    /\ Len(fn_out) = 1
    /\ fn_out[1].uri = 2

\* C14: an error raised while processing one item skips that item only: when
\* get_posts_for_user has returned, which it does normally, every item that
\* raised no error and passes the filters has its row, whatever the items before
\* and after it did.
C14_ErrorSkipsOneItem ==
    fn_pc = "fetched" =>
        /\ fn_i = Len(fn_in.feed) + 1
        /\ \A i \in DOMAIN fn_in.feed : (~Errors(i) /\ PassesFilters(i)) => HasRow(i)

\* the first item's record cannot be read, the second passes and has its row
C14_Witness ==
    /\ fn_pc = "fetched"
    /\ Len(fn_in.feed) = 2
    /\ Item(1).broken
    /\ ~Errors(2)
    /\ PassesFilters(2)
    /\ HasRow(2)

\* C19: every row has a non-empty cleaned text, so the classifier was never
\* called on an empty string, whatever the raw text of the post.
C19_CleanedTextNotEmpty ==
    \A k \in DOMAIN fn_out : fn_pc \in {"fetch", "fetched"} => fn_out[k].text # <<>>

\* --------------------------------------------- categorize_text: properties
Classified == fn_pc = "classified" /\ fn_in.client = Initialized
Returned == fn_out[1]

\* C15: the controversy of every pair the classifier returns is an integer of 1..10.
C15_ControversyInRange ==
    (Classified /\ ~Returned.raised) => Returned.controversy \in 1..10

\* the controversy field cannot be converted to an integer
Unconvertible(r) == r.ctype \in {"null", "badstr", "nan", "list"}
\* c is the field converted: the integer itself, the integer a string spells, a
\* float with its fraction cut off
Converted(r, c) ==
    /\ r.ctype \in {"int", "str"} => c = r.cval
    /\ r.ctype = "float" =>
        /\ c * r.cval >= 0
        /\ IF r.cval >= 0 THEN 10 * c <= r.cval /\ r.cval < (10 * c) + 10
           ELSE r.cval <= 10 * c /\ (10 * c) - 10 < r.cval
CategoryOf(r) == IF r.category = "null" THEN None ELSE r.category
FallbackPair(o) == o.category = "Uncategorized" /\ o.controversy = 1

\* C16 as stated: with the client set categorize_text never raises; a response that
\* is a JSON object with both fields, the controversy convertible, gives its
\* category and its controversy converted, and every other response gives
\* exactly ("Uncategorized", 1).
C16_FallbackOrResponse ==
    Classified =>
        LET r == fn_in.resp
            o == Returned
        IN /\ ~o.raised
           /\ IF r.kind = "object" /\ r.category # "missing" /\ r.ctype # "missing"
                    /\ ~Unconvertible(r)
              THEN o.category = CategoryOf(r) /\ Converted(r, o.controversy)
              ELSE FallbackPair(o)

\* C16: with the client set categorize_text never raises; when the call fails,
\* the content is no JSON object or its controversy field cannot be converted,
\* it returns exactly ("Uncategorized", 1); else it returns the category field,
\* "Uncategorized" when the object has none, and the controversy field
\* converted to an integer, 1 when the object has none.
C16_FallbackOrFieldDefaults ==
    Classified =>
        LET r == fn_in.resp
            o == Returned
        IN /\ ~o.raised
           /\ (r.kind # "object" \/ Unconvertible(r)) => FallbackPair(o)
           /\ (r.kind = "object" /\ ~Unconvertible(r)) =>
                /\ o.category = IF r.category = "missing" THEN "Uncategorized"
                                ELSE CategoryOf(r)
                /\ IF r.ctype = "missing" THEN o.controversy = 1
                   ELSE Converted(r, o.controversy)

\* the response {"category": "Gardening", "controversy": "9"} gave ("Gardening", 9)
C16_Witness ==
    /\ Classified
    /\ fn_in.resp.kind = "object"
    /\ fn_in.resp.category = "Gardening"
    /\ fn_in.resp.ctype = "str"
    /\ fn_in.resp.cval = 9
    /\ Returned.category = "Gardening"
    /\ Returned.controversy = 9

\* -------------------------------------------------- clean_text: properties
AsciiOnly(t) == \A i \in DOMAIN t : t[i] \in {"a", "sp"}
Trimmed(t) == t = <<>> \/ (t[1] \notin {"sp", "nbsp"} /\ t[Len(t)] \notin {"sp", "nbsp"})

\* C18: what clean_text returns holds only ASCII characters and has no whitespace
\* at either end; cleaning it again changes nothing; a text that is ASCII only
\* and trimmed already is returned as it is.
C18_CleanTextIdempotent ==
    fn_pc = "clean_text" =>
        /\ \A k \in DOMAIN fn_out : AsciiOnly(fn_out[k]) /\ Trimmed(fn_out[k])
        /\ Len(fn_out) = 2 => fn_out[2] = fn_out[1]
        /\ (Len(fn_out) >= 1 /\ AsciiOnly(fn_in) /\ Trimmed(fn_in)) => fn_out[1] = fn_in

\* an accented letter, a blank, a letter and an emoji: cleaned to the letter, twice
C18_Witness ==
    /\ fn_pc = "clean_text"
    /\ fn_in = <<"bmp", "sp", "a", "astral">>
    /\ fn_out = <<(<<"a">>), (<<"a">>)>>

====
